---- MODULE Spec2Model ----
(***************************************************************************)
(* Render engine of srtemplate (src/render.rs): render_nodes appends the   *)
(* rendering of one TemplateNode to a buffer, render_node returns it as a  *)
(* fresh string.  Both resolve Variable nodes in `vars` and Function nodes *)
(* in `funcs` (two DashMaps shared with the caller).                       *)
(*                                                                         *)
(* Strings are sequences of one-character strings.                         *)
(***************************************************************************)
EXTENDS Naturals, Sequences, FiniteSets, TLC

\* Largest number of TemplateNodes (arguments included) one template holds.
MaxNodes == 3


\* Largest number of writes the writer thread makes while renders run.
MaxWrites == 1

\* --------------------------------------------------------------------------
\* Data model: TemplateNode, Result<_, SrTemplateError>, the two registries
\* --------------------------------------------------------------------------

\* The four node kinds that carry literal text (one match arm in the source).
LiteralKinds == {"RawText", "String", "Float", "Number"}

\* TemplateNode: kind, its text (literal text, variable name or function
\* name) and its arguments (empty unless a Function).
Node(kind, text, args) == [kind |-> kind, text |-> text, args |-> args]

\* Option: what DashMap::get yields, None for a key that is not bound and
\* Some(v) for the entry of a bound key.
None == <<>>
Some(v) == <<v>>

\* Result::Ok(text).
Ok(s) == [ok |-> TRUE, val |-> s, err |-> "", name |-> ""]

\* Result::Err(SrTemplateError::<e>(name)).
Err(e, n) == [ok |-> FALSE, val |-> <<>>, err |-> e, name |-> n]

\* Names a template may use for variables, and the names for functions.
VarNames == {"var", "VAR"}
FuncNames == {"f", "g"}

\* Values the caller binds to variables (leading blank, upper case, empty).
VarValues == {<<" ", "A">>, <<"b">>, <<>>}

\* The callables the caller registers: TemplateFunction values.
Callables == {"lower", "join", "fail"}

\* char::to_lowercase on the model's alphabet.
LowerChar(c) == IF c = "A" THEN "a" ELSE IF c = "H" THEN "h" ELSE c

\* [a1, a2, ...] flattened with a "," in front of every element: the list's
\* length and order can be read back from the text.
RECURSIVE JoinArgs(_)
JoinArgs(args) ==
    IF args = <<>> THEN <<>>
    ELSE <<",">> \o Head(args) \o JoinArgs(Tail(args))

\* A registered callable applied to the rendered arguments:
\* fn(&[String]) -> Result<String, SrTemplateError>.
Apply(c, args) ==
    CASE c = "lower" ->
           LET s == JoinArgs(args)
           IN  Ok([i \in 1..Len(s) |-> LowerChar(s[i])])
      [] c = "join" -> Ok(<<"(">> \o JoinArgs(args) \o <<")">>)
      [] OTHER -> Err("CallableError", "fail")

\* Mutant of Get: the key is matched without regard to case.
GetIgnoreCase(map, key) ==
    IF key \in {"var", "VAR"}
    THEN IF map["var"] # None THEN map["var"] ELSE map["VAR"]
    ELSE map[key]

\* DashMap::get(key): the value bound to exactly this key, or None.
Get(map, key) == map[key]

\* Events of one render call, in the order they happen: a variable lookup
\* (hit or miss), a function lookup that missed, a callable invocation.  `at`
\* is the node's position in the tree: the argument indices from the root.
LookupEv(key, at, hit) ==
    [ev |-> "lookup", key |-> key, at |-> at, args |-> <<>>, ok |-> hit]
MissingEv(key, at) ==
    [ev |-> "missing", key |-> key, at |-> at, args |-> <<>>, ok |-> FALSE]
CallEv(key, at, args, ok) ==
    [ev |-> "call", key |-> key, at |-> at, args |-> args, ok |-> ok]

\* --------------------------------------------------------------------------
\* render_node and render_nodes
\* --------------------------------------------------------------------------
RECURSIVE render_node(_, _, _, _)
RECURSIVE evaluated_arguments(_, _, _, _, _)
RECURSIVE evaluated_arguments_eager(_, _, _, _, _)
RECURSIVE evaluated_arguments_reversed(_, _, _, _, _)

\* Mutant of evaluated_arguments: every argument is rendered before the first
\* error is returned.
evaluated_arguments_eager(arguments, i, at, vars, funcs) ==
    IF i > Len(arguments) THEN [r |-> Ok(<<>>), tr |-> <<>>]
    ELSE LET first == render_node(arguments[i], Append(at, i), vars, funcs)
             rest == evaluated_arguments_eager(arguments, i + 1, at, vars, funcs)
         IN  IF ~first.r.ok THEN [r |-> first.r, tr |-> first.tr \o rest.tr]
             ELSE IF ~rest.r.ok THEN [r |-> rest.r, tr |-> first.tr \o rest.tr]
             ELSE [r |-> Ok(<<first.r.val>> \o rest.r.val),
                   tr |-> first.tr \o rest.tr]

\* Mutant of evaluated_arguments: the rendered arguments are collected in
\* reverse.
evaluated_arguments_reversed(arguments, i, at, vars, funcs) ==
    IF i > Len(arguments) THEN [r |-> Ok(<<>>), tr |-> <<>>]
    ELSE LET first == render_node(arguments[i], Append(at, i), vars, funcs)
         IN  IF ~first.r.ok THEN first
             ELSE LET rest == evaluated_arguments_reversed(arguments, i + 1, at,
                                                           vars, funcs)
                  IN  IF ~rest.r.ok
                      THEN [r |-> rest.r, tr |-> first.tr \o rest.tr]
                      ELSE [r |-> Ok(Append(rest.r.val, first.r.val)),
                            tr |-> first.tr \o rest.tr]

\* arguments.into_iter().map(|arg| render_node(arg, vars, funcs)).collect()
\* into Result<Vec<String>, _>: the arguments from index i on, left to right;
\* the first Err ends the iteration and is the result.
evaluated_arguments(arguments, i, at, vars, funcs) ==
    IF i > Len(arguments) THEN [r |-> Ok(<<>>), tr |-> <<>>]
    ELSE LET first == render_node(arguments[i], Append(at, i), vars, funcs)
         IN  IF ~first.r.ok THEN first
             ELSE LET rest == evaluated_arguments(arguments, i + 1, at, vars, funcs)
                  IN  IF ~rest.r.ok
                      THEN [r |-> rest.r, tr |-> first.tr \o rest.tr]
                      ELSE [r |-> Ok(<<first.r.val>> \o rest.r.val),
                            tr |-> first.tr \o rest.tr]

\* render_node(node, vars, funcs) -> Result<String, SrTemplateError>, with the
\* events of the call.
render_node(node, at, vars, funcs) ==
    CASE node.kind \in LiteralKinds -> [r |-> Ok(node.text), tr |-> <<>>]
      [] node.kind = "Variable" ->
           LET variable == Get(vars, node.text)
           IN  IF variable = None
               THEN [r |-> Err("VariableNotFound", node.text),
                     tr |-> <<LookupEv(node.text, at, FALSE)>>]
               ELSE [r |-> Ok(variable[1]), tr |-> <<LookupEv(node.text, at, TRUE)>>]
      [] OTHER ->
           LET ea == evaluated_arguments(node.args, 1, at, vars, funcs)
           IN  IF ~ea.r.ok THEN ea
               ELSE LET callable == Get(funcs, node.text)
                    IN  IF callable = None
                        THEN [r |-> Err("FunctionNotImplemented", node.text),
                              tr |-> Append(ea.tr, MissingEv(node.text, at))]
                        ELSE LET result_of_function == Apply(callable[1], ea.r.val)
                             IN  [r |-> result_of_function,
                                  tr |-> Append(ea.tr,
                                                CallEv(node.text, at, ea.r.val,
                                                       result_of_function.ok))]

\* What render_nodes does with render_node's outcome `got` when it pushes
\* `text` on success and `junk` on failure (mutants only).
Pushed(res, got, text, junk) ==
    IF got.r.ok
    THEN [res |-> text, r |-> Ok(<<>>), tr |-> got.tr]
    ELSE [res |-> junk, r |-> got.r, tr |-> got.tr]

\* Mutant of render_nodes: the function's existence is checked before its
\* arguments are rendered.
render_nodes_check_first(res, node, vars, funcs) ==
    IF node.kind = "Function" /\ Get(funcs, node.text) = None
    THEN [res |-> res, r |-> Err("FunctionNotImplemented", node.text),
          tr |-> <<MissingEv(node.text, <<>>)>>]
    ELSE LET got == render_node(node, <<>>, vars, funcs)
         IN  Pushed(res, got, res \o got.r.val, res)

\* Mutant of render_nodes: a failing call pushes a placeholder.
render_nodes_placeholder(res, node, vars, funcs) ==
    LET got == render_node(node, <<>>, vars, funcs)
    IN  Pushed(res, got, res \o got.r.val, res \o <<"?">>)

\* Mutant of render_nodes: a Number is pushed as its value, without the
\* leading zeros.
render_nodes_numeric(res, node, vars, funcs) ==
    LET got == render_node(node, <<>>, vars, funcs)
    IN  IF node.kind = "Number" /\ Head(node.text) = "0"
        THEN Pushed(res, got, res \o Tail(node.text), res)
        ELSE Pushed(res, got, res \o got.r.val, res)

\* Mutant of render_nodes: the text replaces the buffer's content.
render_nodes_overwrite(res, node, vars, funcs) ==
    LET got == render_node(node, <<>>, vars, funcs)
    IN  Pushed(res, got, got.r.val, res)

\* render_nodes(res, node, vars, funcs) -> Result<(), SrTemplateError>: the
\* buffer after the call, the result and the events.  The arguments of a
\* Function are rendered by render_node; res.push_str comes last in each arm.
render_nodes(res, node, vars, funcs) ==
    CASE node.kind \in LiteralKinds ->
           [res |-> res \o node.text, r |-> Ok(<<>>), tr |-> <<>>]
      [] node.kind = "Variable" ->
           LET variable == Get(vars, node.text)
           IN  IF variable = None
               THEN [res |-> res, r |-> Err("VariableNotFound", node.text),
                     tr |-> <<LookupEv(node.text, <<>>, FALSE)>>]
               ELSE [res |-> res \o variable[1], r |-> Ok(<<>>),
                     tr |-> <<LookupEv(node.text, <<>>, TRUE)>>]
      [] OTHER ->
           LET ea == evaluated_arguments(node.args, 1, <<>>, vars, funcs)
           IN  IF ~ea.r.ok THEN [res |-> res, r |-> ea.r, tr |-> ea.tr]
               ELSE LET callable == Get(funcs, node.text)
                    IN  IF callable = None
                        THEN [res |-> res,
                              r |-> Err("FunctionNotImplemented", node.text),
                              tr |-> Append(ea.tr, MissingEv(node.text, <<>>))]
                        ELSE LET result_of_function == Apply(callable[1], ea.r.val)
                                 tr == Append(ea.tr,
                                              CallEv(node.text, <<>>, ea.r.val,
                                                     result_of_function.ok))
                             IN  IF result_of_function.ok
                                 THEN [res |-> res \o result_of_function.val,
                                       r |-> Ok(<<>>), tr |-> tr]
                                 ELSE [res |-> res, r |-> result_of_function,
                                       tr |-> tr]

\* --------------------------------------------------------------------------
\* The templates rendered: every tree of at most MaxNodes nodes
\* --------------------------------------------------------------------------

\* Leaves the parser produces as function arguments.
ArgLeaves ==
    {Node("String", <<" ", "!">>, <<>>), Node("Number", <<"0", "7">>, <<>>),
     Node("Float", <<"1", ".", "0">>, <<>>)}
        \cup {Node("Variable", v, <<>>) : v \in VarNames}

\* Leaves at the top level of a template: raw text too.
TopLeaves == ArgLeaves \cup {Node("RawText", <<"H", " ">>, <<>>)}

RECURSIVE ArgTrees(_)
RECURSIVE ArgForests(_)

\* The argument trees of exactly n nodes.
ArgTrees(n) ==
    IF n = 1
    THEN ArgLeaves \cup {Node("Function", f, <<>>) : f \in FuncNames}
    ELSE {Node("Function", f, args) : f \in FuncNames, args \in ArgForests(n - 1)}

\* The argument lists that hold m nodes in all.
ArgForests(m) ==
    IF m = 0 THEN {<<>>}
    ELSE UNION {{<<t>> \o rest : t \in ArgTrees(k), rest \in ArgForests(m - k)} :
                k \in 1..m}

\* The top-level nodes of exactly n nodes.
TopTrees(n) ==
    IF n = 1
    THEN TopLeaves \cup {Node("Function", f, <<>>) : f \in FuncNames}
    ELSE ArgTrees(n)

\* The templates by size, and all of them.
TemplatesOfSize == [n \in 1..MaxNodes |-> TopTrees(n)]
Templates == UNION {TemplatesOfSize[n] : n \in 1..MaxNodes}

\* Number of nodes of a tree.
RECURSIVE NodeCount(_)
RECURSIVE ForestCount(_)
NodeCount(n) == 1 + ForestCount(n.args)
ForestCount(args) ==
    IF args = <<>> THEN 0 ELSE NodeCount(Head(args)) + ForestCount(Tail(args))

\* The registries the caller hands in: DashMap::from_iter([...]) / DashMap::new().
VarConfigs ==
    {[k \in VarNames |-> IF k = "var" THEN a ELSE b] :
        a \in {None, Some(<<" ", "A">>), Some(<<>>)}, b \in {None, Some(<<"b">>)}}
FuncConfigs ==
    {[k \in FuncNames |-> IF k = "f" THEN a ELSE b] :
        a \in {None, Some("lower"), Some("fail")}, b \in {None, Some("join")}}

\* --------------------------------------------------------------------------
\* The caller's loop: one shared buffer, one render call per node
\* --------------------------------------------------------------------------
VARIABLES
    vars,    \* the variable bindings
    funcs,   \* the function registry
    res,     \* the output buffer
    budget,  \* nodes the template may still hold
    node,    \* the node of the last render call
    entry,   \* the entry point of the last call: render_nodes or render_node
             \* (none: no call yet, or the bindings changed since)
    out,     \* the Result the last call returned
    trace,   \* the events of the last call
    prev,    \* the buffer before the last call
    acc,     \* render_node's texts of the nodes rendered so far, concatenated
    lits,    \* the texts of the nodes so far, while all of them are literals
    first,   \* the bindings and the outcome of the first render of a kept tree
             \* (rendered: whether it was made)
    \* render calls on threads of their own, beside a thread that writes:
    pc,      \* where each render call is
    stack,   \* each render call's frames: one render_node activation each
    guards,  \* the DashMap read guards each render call holds, oldest first
    rout,    \* the Result each render call returned
    reads,   \* what each variable lookup of the call saw: key and Option
    bound,   \* per call and name, what was bound to it at some moment of the call
    whole,   \* the bindings as last written in full
    wpc,     \* where the writer is
    wop,     \* the write it is making
    writes,  \* writes begun
    locking  \* the build's locks: writers first or not, and each key's shard

regs == <<vars, funcs>>
callvars == <<res, node, entry, out, trace, prev>>
loopvars == <<budget, acc, lits>>
keptvars == <<first>>
rendervars == <<pc, stack, guards, rout, reads, bound>>
writervars == <<whole, wpc, wop, writes>>
threadvars == <<rendervars, writervars, locking>>
allvars == <<regs, callvars, loopvars, keptvars, threadvars>>

NoNode == Node("None", <<>>, <<>>)
NoRender == [rendered |-> FALSE, vars |-> <<>>, out |-> Ok(<<>>), res |-> <<>>]

\* The threads of SpecThreads: the render calls and the write in progress.
Renderers == {"r1", "r2"}

NoWrite == [map |-> "none", key |-> "", val |-> None, fn |-> None]

\* No thread has started.
ThreadsIdle ==
    /\ pc = [t \in Renderers |-> "idle"]
    /\ stack = [t \in Renderers |-> <<>>]
    /\ guards = [t \in Renderers |-> <<>>]
    /\ rout = [t \in Renderers |-> Ok(<<>>)]
    /\ reads = [t \in Renderers |-> <<>>]
    /\ bound = [t \in Renderers |-> [k \in VarNames |-> {}]]
    /\ wpc = "idle"
    /\ wop = NoWrite
    /\ writes = 0

Init ==
    /\ vars \in VarConfigs
    /\ funcs \in FuncConfigs
    /\ res = <<>>
    /\ budget = MaxNodes
    /\ node = NoNode
    /\ entry = "none"
    /\ out = Ok(<<>>)
    /\ trace = <<>>
    /\ prev = <<>>
    /\ acc = <<>>
    /\ lits = <<>>
    /\ first = NoRender
    /\ ThreadsIdle
    /\ whole = vars
    /\ locking = [writersFirst |-> TRUE, shard |-> [k \in VarNames |-> 1]]

\* for node in nodes { render_nodes(&mut res, node, &vars, &funcs) }: the next
\* node of the template, as long as no call failed.
RenderNodes ==
    \E size \in 1..budget : \E n \in TemplatesOfSize[size] :
        /\ out.ok
        /\ LET call == render_nodes(res, n, vars, funcs)
               alone == render_node(n, <<>>, vars, funcs).r
           IN  /\ res' = call.res
               /\ out' = call.r
               /\ trace' = call.tr
               /\ acc' = IF alone.ok THEN acc \o alone.val ELSE acc
        /\ prev' = res
        /\ node' = n
        /\ entry' = "render_nodes"
        /\ budget' = budget - size
        /\ lits' = IF lits = res /\ n.kind \in LiteralKinds
                   THEN lits \o n.text ELSE <<>>
        /\ UNCHANGED <<regs, keptvars, threadvars>>

\* render_node(node, &vars, &funcs) called on its own: a fresh string.
RenderNode ==
    \E size \in 1..budget : \E n \in TemplatesOfSize[size] :
        /\ out.ok
        /\ LET call == render_node(n, <<>>, vars, funcs)
           IN  /\ out' = call.r
               /\ trace' = call.tr
        /\ prev' = res
        /\ node' = n
        /\ entry' = "render_node"
        /\ budget' = budget - size
        /\ UNCHANGED <<regs, res, acc, lits, keptvars, threadvars>>

Next == RenderNodes \/ RenderNode

Spec == Init /\ [][Next]_allvars

\* --------------------------------------------------------------------------
\* A caller that keeps one parsed tree, renders it, changes the bindings and
\* renders it again
\* --------------------------------------------------------------------------
InitRepeat ==
    /\ vars = [k \in VarNames |-> IF k = "var" THEN Some(<<" ", "A">>) ELSE None]
    /\ funcs \in {c \in FuncConfigs : c["f"] # None}
    /\ node \in Templates
    /\ res = <<>>
    /\ entry = "none"
    /\ out = Ok(<<>>)
    /\ trace = <<>>
    /\ prev = <<>>
    /\ budget = 0
    /\ acc = <<>>
    /\ lits = <<>>
    /\ first = NoRender
    /\ ThreadsIdle
    /\ whole = vars
    /\ locking = [writersFirst |-> TRUE, shard |-> [k \in VarNames |-> 1]]

\* Mutant of RenderAgain: the outcome of the first render is kept and handed
\* out again.
RenderAgainCached ==
    /\ LET call == render_nodes(<<>>, node, vars, funcs)
           kept == IF ~first.rendered
                   THEN [rendered |-> TRUE, vars |-> vars, out |-> call.r,
                         res |-> call.res]
                   ELSE first
       IN  /\ res' = kept.res
           /\ out' = kept.out
           /\ trace' = call.tr
           /\ first' = kept
    /\ prev' = <<>>
    /\ entry' = "render_nodes"
    /\ UNCHANGED <<regs, node, loopvars, threadvars>>

\* let mut res = String::new(); render_nodes(&mut res, node, &vars, &funcs) on
\* the kept tree.
RenderAgain ==
    /\ LET call == render_nodes(<<>>, node, vars, funcs)
       IN  /\ res' = call.res
           /\ out' = call.r
           /\ trace' = call.tr
           /\ first' = IF ~first.rendered
                       THEN [rendered |-> TRUE, vars |-> vars, out |-> call.r,
                             res |-> call.res]
                       ELSE first
    /\ prev' = <<>>
    /\ entry' = "render_nodes"
    /\ UNCHANGED <<regs, node, loopvars, threadvars>>

\* The caller binds a variable between two render calls (and drops the last
\* output).
InsertVar ==
    \E k \in VarNames, v \in VarValues :
        /\ vars[k] # Some(v)
        /\ [vars EXCEPT ![k] = Some(v)] \in VarConfigs
        /\ vars' = [vars EXCEPT ![k] = Some(v)]
        /\ entry' = "none"
        /\ res' = <<>>
        /\ out' = Ok(<<>>)
        /\ trace' = <<>>
        /\ UNCHANGED <<funcs, node, prev, loopvars, first, threadvars>>

\* The caller removes a binding between two render calls.
RemoveVar ==
    \E k \in VarNames :
        /\ vars[k] # None
        /\ vars' = [vars EXCEPT ![k] = None]
        /\ entry' = "none"
        /\ res' = <<>>
        /\ out' = Ok(<<>>)
        /\ trace' = <<>>
        /\ UNCHANGED <<funcs, node, prev, loopvars, first, threadvars>>

NextRepeat == RenderAgain \/ InsertVar \/ RemoveVar

SpecRepeat == InitRepeat /\ [][NextRepeat]_allvars

\* --------------------------------------------------------------------------
\* Render calls on their own threads while another thread writes to vars and
\* funcs.  DashMap::get takes the read lock of the key's shard and hands out a
\* guard (a Ref); a write holds the shard's write lock while it stores.
\* --------------------------------------------------------------------------

\* The templates the threads render: a variable; two lookups of one name; two
\* names after a string; a call in a call.
ThreadTemplates ==
    LET V(k) == Node("Variable", k, <<>>)
        F(args) == Node("Function", "f", args)
    IN  {V("var"),
         F(<<V("var"), V("var")>>),
         F(<<Node("String", <<" ", "!">>, <<>>), V("var"), V("VAR")>>),
         F(<<F(<<V("VAR")>>)>>)}

\* What a reader sees of a String while a write is storing over it.
Torn == <<"torn">>

\* The writes of the writer thread: insert (a value, a callable) and remove
\* (None) on vars and on funcs.
VarWrites ==
    {[map |-> "vars", key |-> "var", val |-> v, fn |-> None] :
        v \in {None, Some(<<>>)}}
      \cup {[map |-> "vars", key |-> "VAR", val |-> v, fn |-> None] :
                v \in {None, Some(<<"b">>)}}
FuncWrites ==
    {[map |-> "funcs", key |-> "f", val |-> None, fn |-> c] :
        c \in {None, Some("lower")}}

\* The shard a key of a map lives in.
ShardOf(map, key) == IF map = "vars" THEN <<map, locking.shard[key]>> ELSE <<map, 1>>

\* The read guards held on a shard, over all render calls.
Readers(sh) ==
    Cardinality(UNION {{<<t, i>> : i \in {j \in DOMAIN guards[t] : guards[t][j] = sh}} :
                       t \in Renderers})

\* RwLock::read on a shard: refused while a write holds the shard and, where
\* the lock puts writers first, while a write waits for it.
CanRead(sh) ==
    ~ /\ ShardOf(wop.map, wop.key) = sh
      /\ \/ wpc \in {"locked", "half"}
         \/ wpc = "waiting" /\ locking.writersFirst

\* One activation of render_node: the node, its position, the next argument
\* to render and the arguments rendered so far.
Frame(n, at) == [node |-> n, at |-> at, i |-> 1, args |-> <<>>]

Top(t) == stack[t][Len(stack[t])]

\* The recursion into the arguments: render_node is entered for the next
\* argument of the innermost Function that has one left.
RECURSIVE Descend(_)
Descend(st) ==
    LET top == st[Len(st)]
    IN  IF top.node.kind = "Function" /\ top.i <= Len(top.node.args)
        THEN Descend(Append(st, Frame(top.node.args[top.i], Append(top.at, top.i))))
        ELSE st

\* The innermost activation returns r: an Err leaves every enclosing
\* activation through `?`; an Ok is collected by the caller, which goes on
\* with its next argument.
Return(st, r) ==
    IF ~r.ok \/ Len(st) = 1 THEN [done |-> TRUE, stack |-> <<>>, r |-> r]
    ELSE LET caller == st[Len(st) - 1]
             grown == [caller EXCEPT !.args = Append(@, r.val), !.i = @ + 1]
         IN  [done |-> FALSE,
              stack |-> Descend(Append(SubSeq(st, 1, Len(st) - 2), grown)),
              r |-> r]

\* The render call of thread t goes on after its innermost activation returned.
Returns(t, r) ==
    LET after == Return(stack[t], r)
    IN  /\ stack' = [stack EXCEPT ![t] = after.stack]
        /\ pc' = [pc EXCEPT ![t] = IF after.done THEN "done" ELSE "run"]
        /\ rout' = [rout EXCEPT ![t] = IF after.done THEN r ELSE @]

Idle == UNCHANGED <<callvars, loopvars, keptvars>>

InitThreads ==
    /\ vars = [k \in VarNames |-> IF k = "var" THEN Some(<<" ", "A">>) ELSE Some(<<"b">>)]
    /\ funcs = [k \in FuncNames |-> IF k = "f" THEN Some("join") ELSE None]
    /\ res = <<>>
    /\ node = NoNode
    /\ entry = "none"
    /\ out = Ok(<<>>)
    /\ trace = <<>>
    /\ prev = <<>>
    /\ budget = 0
    /\ acc = <<>>
    /\ lits = <<>>
    /\ first = NoRender
    /\ ThreadsIdle
    /\ whole = vars
    /\ locking \in [writersFirst : BOOLEAN,
                     shard : {sh \in [VarNames -> {1, 2}] : sh["var"] = 1}]

\* A thread calls render_node on a template.
Start(t) ==
    /\ pc[t] = "idle"
    /\ \E n \in ThreadTemplates :
          stack' = [stack EXCEPT ![t] = Descend(<<Frame(n, <<>>)>>)]
    /\ pc' = [pc EXCEPT ![t] = "run"]
    /\ bound' = [bound EXCEPT ![t] = [k \in VarNames |-> {whole[k]}]]
    /\ UNCHANGED <<regs, guards, rout, reads, writervars, locking>>
    /\ Idle

\* The literal arm: Ok(text.to_owned()).
Literal(t) ==
    /\ pc[t] = "run"
    /\ Top(t).node.kind \in LiteralKinds
    /\ Returns(t, Ok(Top(t).node.text))
    /\ UNCHANGED <<regs, guards, reads, bound, writervars, locking>>
    /\ Idle

\* Mutant of VarsGet: the lookup does not wait for a store in progress.
VarsGetUnlocked(t) ==
    LET key == Top(t).node.text
        sh == ShardOf("vars", key)
    IN  /\ pc[t] = "run"
        /\ Top(t).node.kind = "Variable"
        /\ CanRead(sh) \/ wpc = "half"
        /\ IF vars[key] = None
           THEN /\ Returns(t, Err("VariableNotFound", key))
                /\ reads' = [reads EXCEPT ![t] = Append(@, [key |-> key, val |-> None])]
                /\ UNCHANGED guards
           ELSE /\ guards' = [guards EXCEPT ![t] = Append(@, sh)]
                /\ pc' = [pc EXCEPT ![t] = "var_held"]
                /\ UNCHANGED <<stack, rout, reads>>
        /\ UNCHANGED <<regs, bound, writervars, locking>>
        /\ Idle

\* vars.get(variable).ok_or(VariableNotFound)?: the read lock of the shard is
\* taken; a key that is not bound gives no guard and the call fails, a bound
\* key gives the guard.
VarsGet(t) ==
    LET key == Top(t).node.text
        sh == ShardOf("vars", key)
    IN  /\ pc[t] = "run"
        /\ Top(t).node.kind = "Variable"
        /\ CanRead(sh)
        /\ IF vars[key] = None
           THEN /\ Returns(t, Err("VariableNotFound", key))
                /\ reads' = [reads EXCEPT ![t] = Append(@, [key |-> key, val |-> None])]
                /\ UNCHANGED guards
           ELSE /\ guards' = [guards EXCEPT ![t] = Append(@, sh)]
                /\ pc' = [pc EXCEPT ![t] = "var_held"]
                /\ UNCHANGED <<stack, rout, reads>>
        /\ UNCHANGED <<regs, bound, writervars, locking>>
        /\ Idle

\* Mutant of VarCopy: the guard outlives the arm.
VarCopyKeepsGuard(t) ==
    LET key == Top(t).node.text
    IN  /\ pc[t] = "var_held"
        /\ Returns(t, Ok(vars[key][1]))
        /\ reads' = [reads EXCEPT ![t] = Append(@, [key |-> key, val |-> vars[key]])]
        /\ UNCHANGED <<guards, regs, bound, writervars, locking>>
        /\ Idle

\* Ok(variable.to_owned()) / res.push_str(&variable): the value is copied
\* through the guard, and the guard is dropped at the end of the arm.
VarCopy(t) ==
    LET key == Top(t).node.text
    IN  /\ pc[t] = "var_held"
        /\ Returns(t, Ok(vars[key][1]))
        /\ reads' = [reads EXCEPT ![t] = Append(@, [key |-> key, val |-> vars[key]])]
        /\ guards' = [guards EXCEPT ![t] = SubSeq(@, 1, Len(@) - 1)]
        /\ UNCHANGED <<regs, bound, writervars, locking>>
        /\ Idle

\* funcs.get(function).ok_or(FunctionNotImplemented)?, reached once every
\* argument is rendered: the read lock of the shard is taken; a name that is
\* not registered gives no guard and the call fails.
FuncsGet(t) ==
    LET name == Top(t).node.text
        sh == ShardOf("funcs", name)
    IN  /\ pc[t] = "run"
        /\ Top(t).node.kind = "Function"
        /\ CanRead(sh)
        /\ IF funcs[name] = None
           THEN /\ Returns(t, Err("FunctionNotImplemented", name))
                /\ UNCHANGED guards
           ELSE /\ guards' = [guards EXCEPT ![t] = Append(@, sh)]
                /\ pc' = [pc EXCEPT ![t] = "func_held"]
                /\ UNCHANGED <<stack, rout>>
        /\ UNCHANGED <<regs, reads, bound, writervars, locking>>
        /\ Idle

\* (&evaluated_arguments)?: the callable runs under the guard, which is a
\* temporary of the statement and is dropped when the statement ends.
Invoke(t) ==
    LET name == Top(t).node.text
        result_of_function == Apply(funcs[name][1], Top(t).args)
    IN  /\ pc[t] = "func_held"
        /\ Returns(t, result_of_function)
        /\ guards' = [guards EXCEPT ![t] = SubSeq(@, 1, Len(@) - 1)]
        /\ UNCHANGED <<regs, reads, bound, writervars, locking>>
        /\ Idle

\* The writer thread calls insert or remove: it now waits for the write lock.
WriterBegin ==
    /\ wpc = "idle"
    /\ writes < MaxWrites
    /\ \/ \E op \in VarWrites : vars[op.key] # op.val /\ wop' = op
       \/ \E op \in FuncWrites : funcs[op.key] # op.fn /\ wop' = op
    /\ wpc' = "waiting"
    /\ writes' = writes + 1
    /\ UNCHANGED <<regs, rendervars, whole, locking>>
    /\ Idle

\* RwLock::write on the shard: granted once no read guard is out.
WriterLock ==
    /\ wpc = "waiting"
    /\ Readers(ShardOf(wop.map, wop.key)) = 0
    /\ wpc' = "locked"
    /\ UNCHANGED <<regs, rendervars, whole, wop, writes, locking>>
    /\ Idle

\* A new value going over a bound one: the store is not one step.
WriterStores ==
    /\ wpc = "locked"
    /\ wop.map = "vars"
    /\ wop.val # None
    /\ vars[wop.key] # None
    /\ vars' = [vars EXCEPT ![wop.key] = Some(Torn)]
    /\ wpc' = "half"
    /\ UNCHANGED <<funcs, rendervars, whole, wop, writes, locking>>
    /\ Idle

\* The write is complete and the write lock is released.
WriterDone ==
    /\ \/ wpc = "half"
       \/ wpc = "locked" /\ ~(wop.map = "vars" /\ wop.val # None /\ vars[wop.key] # None)
    /\ IF wop.map = "vars"
       THEN /\ vars' = [vars EXCEPT ![wop.key] = wop.val]
            /\ whole' = [whole EXCEPT ![wop.key] = wop.val]
            /\ bound' = [t \in Renderers |->
                            IF pc[t] \in {"idle", "done"} THEN bound[t]
                            ELSE [bound[t] EXCEPT ![wop.key] = @ \cup {wop.val}]]
            /\ UNCHANGED funcs
       ELSE /\ funcs' = [funcs EXCEPT ![wop.key] = wop.fn]
            /\ UNCHANGED <<vars, whole, bound>>
    /\ wpc' = "idle"
    /\ wop' = NoWrite
    /\ UNCHANGED <<pc, stack, guards, rout, reads, writes, locking>>
    /\ Idle

RenderStep(t) ==
    Start(t) \/ Literal(t) \/ VarsGet(t) \/ VarCopy(t) \/ FuncsGet(t) \/ Invoke(t)

WriterStep == WriterBegin \/ WriterLock \/ WriterStores \/ WriterDone

NextThreads == (\E t \in Renderers : RenderStep(t)) \/ WriterStep

\* Every thread that can take a step is scheduled in the end.
SpecThreads ==
    /\ InitThreads
    /\ [][NextThreads]_allvars
    /\ \A t \in Renderers : WF_allvars(RenderStep(t))
    /\ WF_allvars(WriterStep)

\* --------------------------------------------------------------------------
\* What the claims are stated with
\* --------------------------------------------------------------------------

\* The last call ran and was render_nodes / render_node / either.
Called == entry # "none"

\* The text the last call produced: what render_nodes pushed onto the buffer,
\* what render_node returned.
Produced == IF entry = "render_nodes" THEN SubSeq(res, Len(prev) + 1, Len(res)) ELSE out.val

\* The i-th argument of the last call's node rendered on its own.
ArgResult(i) == render_node(node.args[i], <<i>>, vars, funcs).r

AllArgsOk == \A i \in 1..Len(node.args) : ArgResult(i).ok

\* The first argument that fails on its own (0: none).
FirstFailing ==
    IF AllArgsOk THEN 0
    ELSE CHOOSE i \in 1..Len(node.args) :
            ~ArgResult(i).ok /\ \A j \in 1..(i - 1) : ArgResult(j).ok

\* Position p comes before position q in a depth-first, left-to-right walk that
\* visits a function after its arguments.
RECURSIVE Before(_, _)
Before(p, q) ==
    IF p = <<>> THEN FALSE
    ELSE IF q = <<>> THEN TRUE
    ELSE IF Head(p) # Head(q) THEN Head(p) < Head(q)
    ELSE Before(Tail(p), Tail(q))

\* The positions of the Variable and Function nodes of a tree rooted at `at`.
RECURSIVE Lookups(_, _)
Lookups(n, at) ==
    (IF n.kind \in {"Variable", "Function"} THEN {at} ELSE {})
        \cup UNION {Lookups(n.args[i], Append(at, i)) : i \in 1..Len(n.args)}

\* The error an event that failed stands for.
ErrorOf(e) ==
    CASE e.ev = "lookup" -> Err("VariableNotFound", e.key)
      [] e.ev = "missing" -> Err("FunctionNotImplemented", e.key)
      [] OTHER -> Apply(funcs[e.key][1], e.args)

\* --------------------------------------------------------------------------
\* Claims
\* --------------------------------------------------------------------------

\* C1: the lookups and invocations of a render call happen in depth-first,
\* left-to-right order, each node at most once; the first one that fails is the
\* last thing the call does and its error is the call's result, so nothing to
\* the right of a failing argument is looked up or invoked and no enclosing
\* callable runs; everything to the left of the failure was evaluated.
C1_LeftToRightShortCircuit ==
    Called =>
        /\ \A i, j \in 1..Len(trace) : i < j => Before(trace[i].at, trace[j].at)
        /\ \A i \in 1..Len(trace) : ~trace[i].ok => i = Len(trace)
        /\ ~out.ok => /\ trace # <<>>
                      /\ ~trace[Len(trace)].ok
                      /\ out = ErrorOf(trace[Len(trace)])
        /\ {trace[i].at : i \in 1..Len(trace)} =
             {p \in Lookups(node, <<>>) :
                out.ok \/ ~Before(trace[Len(trace)].at, p)}

\* C1 witness: a function whose first argument fails and whose second argument
\* is a variable or a call.
C1_Witness ==
    /\ Called
    /\ node.kind = "Function"
    /\ Len(node.args) >= 2
    /\ ~ArgResult(1).ok
    /\ node.args[2].kind \in {"Variable", "Function"}

\* C2 as stated: with the function's name absent from funcs, the call fails
\* with FunctionNotImplemented(name) if all arguments render, and with the
\* first failing argument's error, never a FunctionNotImplemented, otherwise.
C2_AsStated ==
    (Called /\ node.kind = "Function" /\ funcs[node.text] = None) =>
        IF AllArgsOk
        THEN out = Err("FunctionNotImplemented", node.text)
        ELSE out = ArgResult(FirstFailing) /\ out.err # "FunctionNotImplemented"

\* C2 amended: with the function's name absent from funcs, the call fails with
\* FunctionNotImplemented(name) if all arguments render; otherwise it fails
\* with the first failing argument's error (which may itself be the
\* FunctionNotImplemented of a nested call) and the node's own existence check
\* is never made.
C2_ArgumentsBeforeExistenceCheck ==
    (Called /\ node.kind = "Function" /\ funcs[node.text] = None) =>
        IF AllArgsOk
        THEN /\ out = Err("FunctionNotImplemented", node.text)
             /\ trace[Len(trace)] = MissingEv(node.text, <<>>)
        ELSE /\ out = ArgResult(FirstFailing)
             /\ \A i \in 1..Len(trace) : trace[i].at # <<>>

\* C2 witness: an unregistered function whose argument is a missing variable.
C2_Witness ==
    /\ Called
    /\ node.kind = "Function"
    /\ funcs[node.text] = None
    /\ Len(node.args) >= 1
    /\ out.err = "VariableNotFound"

\* C3: a Variable node renders to exactly the value bound to its name, and
\* fails with VariableNotFound(name), leaving the buffer alone, when no value is
\* bound to exactly that name.
C3_VariableLookup ==
    (Called /\ node.kind = "Variable") =>
        IF vars[node.text] # None
        THEN out.ok /\ Produced = vars[node.text][1]
        ELSE out = Err("VariableNotFound", node.text) /\ res = prev

\* C3 witness: the node names VAR while only var is bound.
C3_Witness ==
    /\ Called
    /\ node.kind = "Variable"
    /\ node.text = "VAR"
    /\ vars["VAR"] = None
    /\ vars["var"] = Some(<<" ", "A">>)

\* C4: a registered function whose arguments all render is invoked exactly
\* once, last, with the arguments' renderings in the order written, and the
\* call's result is what the callable returned.
C4_CallableInvokedOnce ==
    (Called /\ node.kind = "Function" /\ funcs[node.text] # None /\ AllArgsOk) =>
        LET rendered == [i \in 1..Len(node.args) |-> ArgResult(i).val]
            calls == SelectSeq(trace, LAMBDA e : e.at = <<>>)
            returned == Apply(funcs[node.text][1], rendered)
        IN  /\ Len(calls) = 1
            /\ trace[Len(trace)] = calls[1]
            /\ calls[1].ev = "call"
            /\ calls[1].key = node.text
            /\ calls[1].args = rendered
            /\ IF returned.ok
               THEN out.ok /\ Produced = returned.val
               ELSE out = returned /\ res = prev

\* C4 witness: f(g(x)) with x bound and both functions registered.
C4_Witness ==
    /\ entry = "render_nodes"
    /\ out.ok
    /\ node.kind = "Function"
    /\ Len(node.args) = 1
    /\ node.args[1].kind = "Function"
    /\ node.text # node.args[1].text
    /\ Len(node.args[1].args) = 1
    /\ node.args[1].args[1].kind = "Variable"

\* C5: a failing render_nodes call leaves the buffer as it was, which is the
\* renderings of the nodes before it, in order.
C5_FailureLeavesBuffer ==
    (entry = "render_nodes" /\ ~out.ok) => res = prev /\ res = acc

\* C5 witness: the second node of a template fails after one of its arguments
\* rendered.
C5_Witness ==
    /\ entry = "render_nodes"
    /\ ~out.ok
    /\ prev # <<>>
    /\ node.kind = "Function"
    /\ Len(trace) >= 2

\* C6: a literal node always renders to its text, with no lookup at all, and a
\* sequence of literal nodes to the concatenation of their texts.
C6_LiteralsVerbatim ==
    /\ (Called /\ node.kind \in LiteralKinds) =>
          out.ok /\ Produced = node.text /\ trace = <<>>
    /\ lits # <<>> => res = lits

\* C6 witness: two literal nodes rendered into one buffer with both registries
\* empty.
C6_Witness ==
    /\ entry = "render_nodes"
    /\ node.kind = "Number"
    /\ lits # <<>>
    /\ Len(lits) > Len(node.text)
    /\ \A k \in VarNames : vars[k] = None
    /\ \A k \in FuncNames : funcs[k] = None

\* C9: render_nodes succeeds exactly when render_node does and then appends
\* render_node's text to the buffer; it fails with render_node's error; the
\* buffer after a sequence of calls is the renderings in order.
C9_RenderNodesAgreesWithRenderNode ==
    entry = "render_nodes" =>
        LET alone == render_node(node, <<>>, vars, funcs)
        IN  /\ out.ok <=> alone.r.ok
            /\ alone.r.ok => res = prev \o alone.r.val
            /\ ~alone.r.ok => out = alone.r /\ res = prev
            /\ trace = alone.tr
            /\ res = acc

\* C9 witness: a function call appended after earlier output.
C9_Witness ==
    /\ entry = "render_nodes"
    /\ out.ok
    /\ prev # <<>>
    /\ node.kind = "Function"
    /\ res # prev

C8_LookupsAreAtomic ==
    \A t \in Renderers : \A i \in DOMAIN reads[t] :
        /\ reads[t][i].val \in bound[t][reads[t][i].key]
        /\ reads[t][i].val = None =>
              /\ i = Len(reads[t])
              /\ pc[t] = "done"
              /\ rout[t] = Err("VariableNotFound", reads[t][i].key)

\* C8 witness: two lookups of one name in one render call saw different values.
C8_Witness ==
    \E t \in Renderers : \E i, j \in DOMAIN reads[t] :
        /\ i < j
        /\ reads[t][i].key = reads[t][j].key
        /\ reads[t][i].val # None
        /\ reads[t][j].val # None
        /\ reads[t][i].val # reads[t][j].val

\* What a render call holds at each point: no guard outside a lookup; during a
\* variable lookup the one guard of that variable's shard; during an
\* invocation, with every argument rendered, the one guard of the function's
\* shard.
GuardDiscipline ==
    \A t \in Renderers :
        /\ Len(guards[t]) <= 1
        /\ pc[t] \in {"idle", "run", "done"} => guards[t] = <<>>
        /\ pc[t] = "var_held" =>
              /\ Top(t).node.kind = "Variable"
              /\ guards[t] = <<ShardOf("vars", Top(t).node.text)>>
        /\ pc[t] = "func_held" =>
              /\ Top(t).node.kind = "Function"
              /\ Len(Top(t).args) = Len(Top(t).node.args)
              /\ guards[t] = <<ShardOf("funcs", Top(t).node.text)>>

\* C10: a render call never holds two guards nor takes one while it holds
\* another, holds none between lookups, and every render call that started
\* returns, whatever the other render calls and the writer do.
C10_OneGuardAndProgress ==
    /\ []GuardDiscipline
    /\ \A t \in Renderers : (pc[t] # "idle") ~> (pc[t] = "done")

\* C10 witness: one render call holds a funcs guard and another a vars guard
\* while the writer waits for its write lock.
C10_Witness ==
    /\ wpc = "waiting"
    /\ \E t, u \in Renderers : pc[t] = "func_held" /\ pc[u] = "var_held"

====
